---- MODULE Spec2Model ----
(***************************************************************************)
(* Model of the preprocessing and decoding code of the English-to-French   *)
(* translation notebook (src/Eng_French.ipynb): load_data, tokenize, pad,  *)
(* preprocess and logits_to_text, with the Keras Tokenizer and             *)
(* pad_sequences calls they make modelled by what those calls compute.     *)
(*                                                                         *)
(* A text is a sequence of one-character strings.  A word is a non-empty   *)
(* text.  A vocabulary (Tokenizer.word_index) is a set of <<word, id>>     *)
(* pairs, an id-to-word table a set of <<id, word>> pairs.  An optional    *)
(* argument is a set: {} for None, {v} for the value v.                    *)
(*                                                                         *)
(* Specifications:                                                         *)
(*   SpecTok     tokenize on every corpus file up to MaxFileLen characters *)
(*   SpecEnc     encoding and decoding a sentence with a fitted tokenizer  *)
(*   SpecPad     pad on every batch within MaxRows x MaxRowLen             *)
(*   SpecDecode  logits_to_text on every sequence of class vectors         *)
(*   Spec        the notebook's cells run top to bottom                    *)
(*   SpecAnyOrder  the preprocessing and model cells run in any order      *)
(***************************************************************************)
EXTENDS Integers, Sequences, FiniteSets, TLC

VARIABLES
    pc,              \* the step the run is at
    raised,          \* the exception the last step ended with, "none" if it returned
    data,            \* contents of the corpus file read by load_data
    x,               \* the list of sentences handed to tokenize
    word_index,      \* Tokenizer.word_index: set of <<word, id>>
    text_tokenized,  \* tokenize's first result: one id sequence per sentence
    sentence,        \* a sentence encoded with the fitted tokenizer
    encoded,         \* texts_to_sequences([sentence])[0]
    decoded,         \* the ids of encoded mapped back to words and joined
    sequences,       \* pad's argument x
    length,          \* pad's argument length
    padded,          \* pad's result
    logits,          \* logits_to_text's argument: one class vector per position
    translation,     \* logits_to_text's result
    english_data,    \* contents of data/english
    french_data,     \* contents of data/french
    english_sentences,
    french_sentences,
    preproc_english_sentences,
    preproc_french_sentences,
    english_tokenizer,
    french_tokenizer,
    max_english_sequence_length,
    max_french_sequence_length,
    english_vocab_size,
    french_vocab_size,
    tmp_x,           \* the model input the last model cell built
    simple_rnn_model,  \* {} until built, then {the model's configuration}
    bd_rnn_model,
    embed_rnn_model,
    artifacts        \* the files the persistence cell has written: set of <<name, content>>

tokVars == <<data, x, word_index, text_tokenized>>
encVars == <<sentence, encoded, decoded>>
padVars == <<sequences, length, padded>>
decVars == <<logits, translation>>
fileVars == <<english_data, french_data>>
loadVars == <<english_sentences, french_sentences>>
prepVars == <<preproc_english_sentences, preproc_french_sentences,
              english_tokenizer, french_tokenizer,
              max_english_sequence_length, max_french_sequence_length,
              english_vocab_size, french_vocab_size>>
modelVars == <<tmp_x, simple_rnn_model, bd_rnn_model, embed_rnn_model>>
nbVars == <<fileVars, loadVars, prepVars, modelVars, artifacts>>

vars == <<pc, raised, tokVars, encVars, padVars, decVars, nbVars>>

(***************************************************************************)
(* Bounds of the model.                                                    *)
(***************************************************************************)
MaxFileLen == 5       \* characters of a corpus file (SpecTok)
MaxEncFileLen == 3    \* characters of a corpus file (SpecEnc)
MaxSentLen == 3       \* characters of an encoded sentence (SpecEnc)
MaxRows == 2          \* rows of a batch (SpecPad)
MaxRowLen == 3        \* ids of a row (SpecPad)
MaxPositions == 4     \* positions of a prediction (SpecDecode)
MaxPipeFileLen == 3   \* characters of data/english and of data/french (Spec)
MaxAnyFileLen == 2    \* characters of data/english and of data/french (SpecAnyOrder)

(***************************************************************************)
(* Characters.  NL is the line separator of the corpus files, SP the       *)
(* blank; "," stands for the punctuation characters of Keras' default      *)
(* filter list, "A" for an upper-case letter.                              *)
(***************************************************************************)
NL == "\n"
SP == " "
Chars == {"a", "b", "A", ",", SP, NL}

RECURSIVE TextsUpTo(_, _)
TextsUpTo(alphabet, n) ==
    IF n = 0 THEN {<<>>}
    ELSE LET shorter == TextsUpTo(alphabet, n - 1)
         IN  shorter \cup {Append(t, c) : t \in {s \in shorter : Len(s) = n - 1}, c \in alphabet}

(***************************************************************************)
(* Python string and list primitives.                                      *)
(***************************************************************************)
Range(s) == {s[i] : i \in DOMAIN s}

MaxOf(S) == CHOOSE m \in S : \A n \in S : n <= m

\* str.lower()
LowerChar(c) == IF c = "A" THEN "a" ELSE c
Lower(text) == [i \in DOMAIN text |-> LowerChar(text[i])]

\* str.split(sep): the fields between the separators, empty fields included
RECURSIVE SplitOn(_, _)
SplitOn(text, sep) ==
    IF \A i \in DOMAIN text : text[i] # sep THEN <<text>>
    ELSE LET k == CHOOSE i \in DOMAIN text :
                      text[i] = sep /\ \A j \in 1..(i - 1) : text[j] # sep
         IN  <<SubSeq(text, 1, k - 1)>> \o SplitOn(SubSeq(text, k + 1, Len(text)), sep)

\* [i for i in seq if i]
RECURSIVE NonEmpty(_)
NonEmpty(fields) ==
    IF fields = <<>> THEN <<>>
    ELSE (IF Head(fields) = <<>> THEN <<>> ELSE <<Head(fields)>>) \o NonEmpty(Tail(fields))

\* str.split() with no argument: split on runs of whitespace, no empty fields
IsSpace(c) == c \in {SP, NL}
PySplit(text) ==
    NonEmpty(SplitOn([i \in DOMAIN text |-> IF IsSpace(text[i]) THEN SP ELSE text[i]], SP))

\* a join that puts nothing between the words
RECURSIVE JoinNoSeparator(_)
JoinNoSeparator(words) ==
    IF words = <<>> THEN <<>> ELSE words[1] \o JoinNoSeparator(Tail(words))

\* ' '.join(words)
RECURSIVE JoinSP(_)
JoinSP(words) ==
    IF words = <<>> THEN <<>>
    ELSE IF Len(words) = 1 THEN words[1]
    ELSE words[1] \o <<SP>> \o JoinSP(Tail(words))

(***************************************************************************)
(* load_data                                                               *)
(***************************************************************************)
load_data(contents) == SplitOn(contents, NL)

(***************************************************************************)
(* Keras Tokenizer() with its default arguments (lower = True, split =     *)
(* " ", the punctuation filter, no num_words, no oov_token).               *)
(***************************************************************************)
Filters == {",", NL}

\* keras text_to_word_sequence: lower-case, turn every filtered character
\* into the split character, split on it, drop the empty fields
text_to_word_sequence(text) ==
    LET lowered    == Lower(text)
        translated == [i \in DOMAIN lowered |->
                          IF lowered[i] \in Filters THEN SP ELSE lowered[i]]
    IN  NonEmpty(SplitOn(translated, SP))

\* a tokenizer that files every occurrence of a word as a new word
CountWordAlwaysNew(wc, w) == Append(wc, <<w, 1>>)

\* word_counts[w] += 1, or word_counts[w] = 1 for a word not seen before
CountWord(wc, w) ==
    IF \E i \in DOMAIN wc : wc[i][1] = w
    THEN [i \in DOMAIN wc |-> IF wc[i][1] = w THEN <<w, wc[i][2] + 1>> ELSE wc[i]]
    ELSE Append(wc, <<w, 1>>)

RECURSIVE CountWords(_, _)
CountWords(wc, words) ==
    IF words = <<>> THEN wc ELSE CountWords(CountWord(wc, Head(words)), Tail(words))

RECURSIVE CountTexts(_, _)
CountTexts(wc, texts) ==
    IF texts = <<>> THEN wc
    ELSE CountTexts(CountWords(wc, text_to_word_sequence(Head(texts))), Tail(texts))

\* a tokenizer that leaves the words in first-seen order
SortByCountSkipped(wc) == wc

\* wcounts.sort(key = count, reverse = True): a stable sort, so words of
\* equal count keep their first-seen order
RECURSIVE SortByCount(_)
SortByCount(wc) ==
    IF wc = <<>> THEN <<>>
    ELSE LET top == MaxOf({wc[i][2] : i \in DOMAIN wc})
             k   == CHOOSE i \in DOMAIN wc :
                        wc[i][2] = top /\ \A j \in 1..(i - 1) : wc[j][2] # top
         IN  <<wc[k]>> \o SortByCount(SubSeq(wc, 1, k - 1) \o SubSeq(wc, k + 1, Len(wc)))

\* a tokenizer that numbers the words from 0
ZipIdsFromZero(sorted_voc) ==
    {<<sorted_voc[i][1], i - 1>> : i \in DOMAIN sorted_voc}

\* dict(zip(sorted_voc, range(1, len(sorted_voc) + 1)))
ZipIds(sorted_voc) ==
    {<<sorted_voc[i][1], i>> : i \in DOMAIN sorted_voc}

fit_on_texts(texts) == ZipIds(SortByCount(CountTexts(<<>>, texts)))

\* dict lookups
HasKey(table, key) == \E e \in table : e[1] = key
Lookup(table, key) == (CHOOSE e \in table : e[1] = key)[2]

\* one text of texts_to_sequences: the ids of the words the vocabulary
\* holds; a word it does not hold is skipped (oov_token is None)
RECURSIVE WordsToIds(_, _)
WordsToIds(wi, words) ==
    IF words = <<>> THEN <<>>
    ELSE (IF HasKey(wi, Head(words)) THEN <<Lookup(wi, Head(words))>> ELSE <<>>)
         \o WordsToIds(wi, Tail(words))

texts_to_sequences(wi, texts) ==
    [i \in DOMAIN texts |-> WordsToIds(wi, text_to_word_sequence(texts[i]))]

\* logits_to_text's table: {id: word for word, id in word_index.items()},
\* then index_to_words[0] = '<PAD>'
PAD == <<"<", "P", "A", "D", ">">>
index_to_words(wi) == {<<e[2], e[1]>> : e \in {f \in wi : f[2] # 0}} \cup {<<0, PAD>>}


(***************************************************************************)
(* tokenize                                                                *)
(***************************************************************************)
tokenize(texts) ==
    [sequences |-> texts_to_sequences(fit_on_texts(texts), texts),
     tokenizer |-> fit_on_texts(texts)]

(***************************************************************************)
(* pad, and keras pad_sequences(x, maxlen = length, padding = 'post') with *)
(* its default truncating = 'pre' and value = 0.                           *)
(***************************************************************************)
Given(opt) == CHOOSE v \in opt : TRUE

\* length = max([len(sentence) for sentence in x]) when length is None
MaxLen(seqs, len) ==
    IF len = {} THEN MaxOf({Len(seqs[i]) : i \in DOMAIN seqs}) ELSE Given(len)

\* a padder that puts the zeros in front of the row
PadRowPre(s, maxlen) ==
    LET trunc == IF Len(s) > maxlen THEN SubSeq(s, Len(s) - maxlen + 1, Len(s)) ELSE s
    IN  [i \in 1..(maxlen - Len(trunc)) |-> 0] \o trunc

\* one row of pad_sequences: trunc = s[-maxlen:], x[idx, :len(trunc)] = trunc
\* on a row of maxlen zeros
PadRow(s, maxlen) ==
    LET trunc == IF Len(s) > maxlen THEN SubSeq(s, Len(s) - maxlen + 1, Len(s)) ELSE s
    IN  trunc \o [i \in 1..(maxlen - Len(trunc)) |-> 0]

\* max() of an empty list raises ValueError; so does pad_sequences with
\* maxlen = 0 on a non-empty row, whose slice s[-0:] is the whole row and
\* does not fit a row of width 0
pad_raises(seqs, len) ==
    IF len = {} /\ seqs = <<>> THEN "ValueError"
    ELSE IF MaxLen(seqs, len) = 0 /\ \E i \in DOMAIN seqs : seqs[i] # <<>> THEN "ValueError"
    ELSE "none"

pad(seqs, len) == [i \in DOMAIN seqs |-> PadRow(seqs[i], MaxLen(seqs, len))]

(***************************************************************************)
(* preprocess                                                              *)
(***************************************************************************)
\* preprocess_y.reshape(*preprocess_y.shape, 1)
Reshape(matrix) == [i \in DOMAIN matrix |-> [j \in DOMAIN matrix[i] |-> <<matrix[i][j]>>]]

\* a preprocess that pads the source sequences a second time in place of
\* the target sequences
preprocess_pads_x_twice(xs, ys) ==
    [preprocess_x |-> pad(tokenize(xs).sequences, {}),
     preprocess_y |-> Reshape(pad(tokenize(xs).sequences, {})),
     x_tk |-> tokenize(xs).tokenizer,
     y_tk |-> tokenize(ys).tokenizer]

\* a preprocess that pads both languages to the longer of the two maxima
preprocess_common_width(xs, ys) ==
    LET sx == tokenize(xs).sequences
        sy == tokenize(ys).sequences
        width == MaxOf({Len(sx[i]) : i \in DOMAIN sx} \cup {Len(sy[i]) : i \in DOMAIN sy})
    IN  [preprocess_x |-> pad(sx, {width}),
         preprocess_y |-> Reshape(pad(sy, {width})),
         x_tk |-> tokenize(xs).tokenizer,
         y_tk |-> tokenize(ys).tokenizer]

preprocess(xs, ys) ==
    [preprocess_x |-> pad(tokenize(xs).sequences, {}),
     preprocess_y |-> Reshape(pad(tokenize(ys).sequences, {})),
     x_tk |-> tokenize(xs).tokenizer,
     y_tk |-> tokenize(ys).tokenizer]

\* array.shape[1]
Shape1(matrix) == Len(matrix[1])

(***************************************************************************)
(* logits_to_text                                                          *)
(***************************************************************************)
\* an arg-max that breaks ties by the highest index
ArgMaxLast(v) ==
    (CHOOSE k \in DOMAIN v :
        /\ \A j \in DOMAIN v : v[j] <= v[k]
        /\ \A j \in (k + 1)..Len(v) : v[j] < v[k]) - 1

\* np.argmax over one class vector: the index, counted from 0, of the first
\* largest entry
ArgMax(v) ==
    (CHOOSE k \in DOMAIN v :
        /\ \A j \in DOMAIN v : v[j] <= v[k]
        /\ \A j \in 1..(k - 1) : v[j] < v[k]) - 1

\* ' '.join([index_to_words[id] for id in ids])
DecodeIds(ids, wi) == JoinSP([i \in DOMAIN ids |-> Lookup(index_to_words(wi), ids[i])])

\* index_to_words[prediction] raises KeyError for an index the table lacks
decode_raises(ids, wi) ==
    IF \E i \in DOMAIN ids : ~HasKey(index_to_words(wi), ids[i]) THEN "KeyError" ELSE "none"

Predictions(lg) == [i \in DOMAIN lg |-> ArgMax(lg[i])]

logits_to_text(lg, wi) == DecodeIds(Predictions(lg), wi)

(***************************************************************************)
(* Values of the variables a specification does not use.                   *)
(***************************************************************************)
TokIdle == data = <<>> /\ x = <<>> /\ word_index = {} /\ text_tokenized = <<>>
EncIdle == sentence = <<>> /\ encoded = <<>> /\ decoded = <<>>
PadIdle == sequences = <<>> /\ length = {} /\ padded = <<>>
DecIdle == logits = <<>> /\ translation = <<>>
LoadIdle == english_sentences = <<>> /\ french_sentences = <<>>
PrepIdle ==
    /\ preproc_english_sentences = <<>> /\ preproc_french_sentences = <<>>
    /\ english_tokenizer = {} /\ french_tokenizer = {}
    /\ max_english_sequence_length = 0 /\ max_french_sequence_length = 0
    /\ english_vocab_size = 0 /\ french_vocab_size = 0
ModelIdle ==
    /\ tmp_x = <<>>
    /\ simple_rnn_model = {} /\ bd_rnn_model = {} /\ embed_rnn_model = {}
NbIdle ==
    /\ english_data = <<>> /\ french_data = <<>>
    /\ LoadIdle /\ PrepIdle /\ ModelIdle /\ artifacts = {}

(***************************************************************************)
(* SpecTok: load a corpus, fit a tokenizer on it, encode it.               *)
(***************************************************************************)
InitTok ==
    /\ pc = "load"
    /\ raised = "none"
    /\ data \in TextsUpTo(Chars, MaxFileLen)
    /\ x = <<>> /\ word_index = {} /\ text_tokenized = <<>>
    /\ EncIdle /\ PadIdle /\ DecIdle /\ NbIdle

\* x = load_data(path)
LoadData ==
    /\ pc = "load"
    /\ x' = load_data(data)
    /\ pc' = "tokenize"
    /\ UNCHANGED <<raised, data, word_index, text_tokenized, encVars, padVars, decVars, nbVars>>

\* text_tokenized, text_tokenizer = tokenize(x)
Tokenize ==
    /\ pc = "tokenize"
    /\ word_index' = tokenize(x).tokenizer
    /\ text_tokenized' = tokenize(x).sequences
    /\ pc' = "tokenized"
    /\ UNCHANGED <<raised, data, x, encVars, padVars, decVars, nbVars>>

NextTok == LoadData \/ Tokenize

SpecTok == InitTok /\ [][NextTok]_vars

(***************************************************************************)
(* SpecEnc: with the tokenizer fitted on a corpus, encode one sentence and *)
(* map its ids back to text.                                               *)
(***************************************************************************)
EncChars == {"a", "b", "A", NL}
SentChars == {"a", "b", "A", ",", SP}

InitEnc ==
    /\ pc = "load"
    /\ raised = "none"
    /\ data \in TextsUpTo(EncChars, MaxEncFileLen)
    /\ x = <<>> /\ word_index = {} /\ text_tokenized = <<>>
    /\ EncIdle /\ PadIdle /\ DecIdle /\ NbIdle

\* tokenizer.texts_to_sequences([sentence])[0]
Encode ==
    /\ pc = "tokenized"
    /\ \E s \in TextsUpTo(SentChars, MaxSentLen) :
          /\ sentence' = s
          /\ encoded' = texts_to_sequences(word_index, <<s>>)[1]
    /\ raised' = "none"
    /\ pc' = "encoded"
    /\ UNCHANGED <<decoded, tokVars, padVars, decVars, nbVars>>

\* ' '.join([index_to_words[id] for id in encoded])
Decode ==
    /\ pc = "encoded"
    /\ raised' = decode_raises(encoded, word_index)
    /\ decoded' = IF decode_raises(encoded, word_index) = "none"
                  THEN DecodeIds(encoded, word_index) ELSE <<>>
    /\ pc' = "decoded"
    /\ UNCHANGED <<sentence, encoded, tokVars, padVars, decVars, nbVars>>

NextEnc == LoadData \/ Tokenize \/ Encode \/ Decode

SpecEnc == InitEnc /\ [][NextEnc]_vars

(***************************************************************************)
(* SpecPad: one call of pad.                                               *)
(***************************************************************************)
PadIds == {1, 2}

RECURSIVE BatchesUpTo(_, _)
BatchesUpTo(rows, n) ==
    IF n = 0 THEN {<<>>}
    ELSE LET fewer == BatchesUpTo(rows, n - 1)
         IN  fewer \cup {Append(b, r) : b \in {c \in fewer : Len(c) = n - 1}, r \in rows}

InitPad ==
    /\ pc = "pad"
    /\ raised = "none"
    /\ sequences \in BatchesUpTo(TextsUpTo(PadIds, MaxRowLen), MaxRows)
    /\ length \in {{}} \cup {{n} : n \in 0..(MaxRowLen + 1)}
    /\ padded = <<>>
    /\ TokIdle /\ EncIdle /\ DecIdle /\ NbIdle

\* padded = pad(sequences, length)
Pad ==
    /\ pc = "pad"
    /\ raised' = pad_raises(sequences, length)
    /\ padded' = IF pad_raises(sequences, length) = "none" THEN pad(sequences, length) ELSE <<>>
    /\ pc' = "padded"
    /\ UNCHANGED <<sequences, length, tokVars, encVars, decVars, nbVars>>

NextPad == Pad

SpecPad == InitPad /\ [][NextPad]_vars

(***************************************************************************)
(* SpecDecode: one call of logits_to_text on the output of a model whose   *)
(* last layer has one class per id of the tokenizer and one for id 0.      *)
(***************************************************************************)
DecChars == {"a", "b", SP}
Levels == {0, 1}

\* the class vectors of a given width
RECURSIVE VectorsOf(_)
VectorsOf(width) ==
    IF width = 0 THEN {<<>>}
    ELSE {Append(v, p) : v \in VectorsOf(width - 1), p \in Levels}

InitDecode ==
    /\ pc = "predict"
    /\ raised = "none"
    /\ word_index \in {tokenize(load_data(d)).tokenizer : d \in TextsUpTo(DecChars, 3)} \ {{}}
    /\ logits \in BatchesUpTo(VectorsOf(Cardinality(word_index) + 1), MaxPositions)
    /\ translation = <<>>
    /\ data = <<>> /\ x = <<>> /\ text_tokenized = <<>>
    /\ EncIdle /\ PadIdle /\ NbIdle

\* translation = logits_to_text(logits, tokenizer)
LogitsToText ==
    /\ pc = "predict"
    /\ raised' = decode_raises(Predictions(logits), word_index)
    /\ translation' = IF decode_raises(Predictions(logits), word_index) = "none"
                      THEN logits_to_text(logits, word_index) ELSE <<>>
    /\ pc' = "decoded"
    /\ UNCHANGED <<logits, tokVars, encVars, padVars, nbVars>>

NextDecode == LogitsToText

SpecDecode == InitDecode /\ [][NextDecode]_vars

(***************************************************************************)
(* Spec: the notebook's cells, run top to bottom.                          *)
(***************************************************************************)
PipeChars == {"a", "b", SP, NL}

Init ==
    /\ pc = "load_cell"
    /\ raised = "none"
    /\ english_data \in TextsUpTo(PipeChars, MaxPipeFileLen)
    /\ french_data \in TextsUpTo(PipeChars, MaxPipeFileLen)
    /\ LoadIdle /\ PrepIdle /\ ModelIdle /\ artifacts = {}
    /\ TokIdle /\ EncIdle /\ PadIdle /\ DecIdle

\* english_sentences = load_data('data/english')
\* french_sentences = load_data('data/french')
LoadCell ==
    /\ pc = "load_cell"
    /\ english_sentences' = load_data(english_data)
    /\ french_sentences' = load_data(french_data)
    /\ pc' = "preprocess_cell"
    /\ UNCHANGED <<raised, fileVars, prepVars, modelVars, artifacts,
                   tokVars, encVars, padVars, decVars>>

\* the cell that calls preprocess and sets the lengths and vocabulary sizes
PreprocessCell ==
    /\ pc = "preprocess_cell"
    /\ \E r \in {preprocess(english_sentences, french_sentences)} :
          /\ preproc_english_sentences' = r.preprocess_x
          /\ preproc_french_sentences' = r.preprocess_y
          /\ english_tokenizer' = r.x_tk
          /\ french_tokenizer' = r.y_tk
    /\ max_english_sequence_length' = Shape1(preproc_english_sentences')
    /\ max_french_sequence_length' = Shape1(preproc_french_sentences')
    /\ english_vocab_size' = Cardinality(english_tokenizer')
    /\ french_vocab_size' = Cardinality(french_tokenizer')
    /\ pc' = "preprocessed"
    /\ UNCHANGED <<raised, fileVars, loadVars, modelVars, artifacts,
                   tokVars, encVars, padVars, decVars>>

(***************************************************************************)
(* The model cells.  A model is its configuration: the network itself and  *)
(* its training are Keras'.  fit raises ValueError when its two arrays     *)
(* hold different numbers of samples.                                      *)
(***************************************************************************)
\* np.max of a matrix of ids, and of a matrix reshaped to one id per entry
MaxId(matrix) == MaxOf(UNION {Range(matrix[i]) : i \in DOMAIN matrix})
MaxLabel(matrix) == MaxOf(UNION {{e[1] : e \in Range(matrix[i])} : i \in DOMAIN matrix})

\* a class count one larger than the code's
NumClassesPlusOne(matrix) == MaxLabel(matrix) + 2

\* np.max(preproc_french_sentences) + 1
NumClasses(matrix) == MaxLabel(matrix) + 1

\* tmp_x = pad(preproc_english_sentences, max_french_sequence_length)
PadInput == pad(preproc_english_sentences, {max_french_sequence_length})
PadInputRaises == pad_raises(preproc_english_sentences, {max_french_sequence_length})

\* model.fit(tmp_x, preproc_french_sentences, ...)
fit_raises(fit_x, fit_y) == IF Len(fit_x) # Len(fit_y) THEN "ValueError" ELSE "none"

\* the simple model cell: what it leaves in raised, tmp_x, french_vocab_size
\* and simple_rnn_model.  pad raises for width 0 and a non-empty source
\* row; a matrix of width 0 cannot be reshaped with -1; those two cover
\* every corpus pair whose target matrix has width 0, so np.max never sees
\* an empty matrix.
SimpleCellOutcome ==
    IF PadInputRaises # "none"
    THEN [raised |-> PadInputRaises, tmp_x |-> tmp_x,
          french_vocab_size |-> french_vocab_size, model |-> simple_rnn_model]
    ELSE IF max_french_sequence_length = 0
    THEN [raised |-> "ValueError", tmp_x |-> PadInput,
          french_vocab_size |-> french_vocab_size, model |-> simple_rnn_model]
    ELSE [raised |-> fit_raises(PadInput, preproc_french_sentences),
          tmp_x |-> Reshape(PadInput),
          french_vocab_size |-> NumClasses(preproc_french_sentences),
          model |-> {[input_shape |-> <<max_french_sequence_length, 1>>,
                      classes |-> NumClasses(preproc_french_sentences)]}]

SimpleCellRun ==
    /\ \E o \in {SimpleCellOutcome} :
          /\ raised' = o.raised
          /\ tmp_x' = o.tmp_x
          /\ french_vocab_size' = o.french_vocab_size
          /\ simple_rnn_model' = o.model
    /\ UNCHANGED <<fileVars, loadVars, artifacts, tokVars, encVars, padVars, decVars,
                   preproc_english_sentences, preproc_french_sentences,
                   english_tokenizer, french_tokenizer,
                   max_english_sequence_length, max_french_sequence_length,
                   english_vocab_size, bd_rnn_model, embed_rnn_model>>

\* the bidirectional model cell: it reads french_vocab_size as it finds it
BdCellOutcome ==
    IF PadInputRaises # "none"
    THEN [raised |-> PadInputRaises, tmp_x |-> tmp_x, model |-> bd_rnn_model]
    ELSE IF max_french_sequence_length = 0
    THEN [raised |-> "ValueError", tmp_x |-> PadInput, model |-> bd_rnn_model]
    ELSE [raised |-> fit_raises(PadInput, preproc_french_sentences),
          tmp_x |-> Reshape(PadInput),
          model |-> {[input_shape |-> <<max_french_sequence_length, 1>>,
                      classes |-> french_vocab_size]}]

BdCellRun ==
    /\ \E o \in {BdCellOutcome} :
          /\ raised' = o.raised
          /\ tmp_x' = o.tmp_x
          /\ bd_rnn_model' = o.model
    /\ UNCHANGED <<fileVars, loadVars, prepVars, artifacts, tokVars, encVars, padVars,
                   decVars, simple_rnn_model, embed_rnn_model>>

\* the embedding model cell: english_vocab_size = np.max(...) + 1 comes
\* first and raises on a source matrix of width 0
EmbedCellOutcome ==
    IF max_english_sequence_length = 0
    THEN [raised |-> "ValueError", tmp_x |-> tmp_x,
          english_vocab_size |-> english_vocab_size, model |-> embed_rnn_model]
    ELSE IF PadInputRaises # "none"
    THEN [raised |-> PadInputRaises, tmp_x |-> tmp_x,
          english_vocab_size |-> MaxId(preproc_english_sentences) + 1,
          model |-> embed_rnn_model]
    ELSE IF max_french_sequence_length = 0
    THEN [raised |-> "ValueError", tmp_x |-> PadInput,
          english_vocab_size |-> MaxId(preproc_english_sentences) + 1,
          model |-> embed_rnn_model]
    ELSE [raised |-> fit_raises(PadInput, preproc_french_sentences),
          tmp_x |-> PadInput,
          english_vocab_size |-> MaxId(preproc_english_sentences) + 1,
          model |-> {[input_dim |-> MaxId(preproc_english_sentences) + 1,
                      input_length |-> max_french_sequence_length,
                      classes |-> french_vocab_size]}]

EmbedCellRun ==
    /\ \E o \in {EmbedCellOutcome} :
          /\ raised' = o.raised
          /\ tmp_x' = o.tmp_x
          /\ english_vocab_size' = o.english_vocab_size
          /\ embed_rnn_model' = o.model
    /\ UNCHANGED <<fileVars, loadVars, artifacts, tokVars, encVars, padVars, decVars,
                   preproc_english_sentences, preproc_french_sentences,
                   english_tokenizer, french_tokenizer,
                   max_english_sequence_length, max_french_sequence_length,
                   french_vocab_size, simple_rnn_model, bd_rnn_model>>

\* a run from the top stops at the first cell that raises
After(done) == IF raised' = "none" THEN done ELSE "stopped"

SimpleCell == pc = "preprocessed" /\ SimpleCellRun /\ pc' = After("simple_done")
BdCell == pc = "simple_done" /\ BdCellRun /\ pc' = After("bd_done")
EmbedCell == pc = "bd_done" /\ EmbedCellRun /\ pc' = After("embed_done")

(***************************************************************************)
(* The persistence cell: four writes in a row, none guarded.  A write the  *)
(* disk refuses raises OSError and ends the cell; the files written before *)
(* it stay.                                                                *)
(***************************************************************************)
Writes == <<"english_to_french_model", "english_tokenizer.json",
            "french_tokenizer.json", "sequence_length.json">>

PersistCell ==
    /\ pc = "embed_done"
    /\ \E completed \in 0..Len(Writes) :
          /\ artifacts' = {Writes[i] : i \in 1..completed}
          /\ raised' = IF completed < Len(Writes) THEN "OSError" ELSE "none"
    /\ pc' = After("saved")
    /\ UNCHANGED <<fileVars, loadVars, prepVars, modelVars, tokVars, encVars, padVars, decVars>>

Next == LoadCell \/ PreprocessCell \/ SimpleCell \/ BdCell \/ EmbedCell \/ PersistCell

Spec == Init /\ [][Next]_vars

(***************************************************************************)
(* SpecAnyOrder: once the load cell and the preprocessing cell have run,   *)
(* the preprocessing cell and the three model cells run in any order, any  *)
(* number of times.                                                        *)
(***************************************************************************)
InitAnyOrder ==
    /\ pc = "load_cell"
    /\ raised = "none"
    /\ english_data \in TextsUpTo(PipeChars, MaxAnyFileLen)
    /\ french_data \in TextsUpTo(PipeChars, MaxAnyFileLen)
    /\ LoadIdle /\ PrepIdle /\ ModelIdle /\ artifacts = {}
    /\ TokIdle /\ EncIdle /\ PadIdle /\ DecIdle

RerunPreprocessCell ==
    /\ pc = "preprocessed"
    /\ \E r \in {preprocess(english_sentences, french_sentences)} :
          /\ preproc_english_sentences' = r.preprocess_x
          /\ preproc_french_sentences' = r.preprocess_y
          /\ english_tokenizer' = r.x_tk
          /\ french_tokenizer' = r.y_tk
    /\ max_english_sequence_length' = Shape1(preproc_english_sentences')
    /\ max_french_sequence_length' = Shape1(preproc_french_sentences')
    /\ english_vocab_size' = Cardinality(english_tokenizer')
    /\ french_vocab_size' = Cardinality(french_tokenizer')
    /\ raised' = "none"
    /\ UNCHANGED <<pc, fileVars, loadVars, modelVars, artifacts,
                   tokVars, encVars, padVars, decVars>>

RunSimpleCell == pc = "preprocessed" /\ SimpleCellRun /\ pc' = pc
RunBdCell == pc = "preprocessed" /\ BdCellRun /\ pc' = pc
RunEmbedCell == pc = "preprocessed" /\ EmbedCellRun /\ pc' = pc

NextAnyOrder ==
    \/ LoadCell \/ PreprocessCell
    \/ RerunPreprocessCell \/ RunSimpleCell \/ RunBdCell \/ RunEmbedCell

SpecAnyOrder == InitAnyOrder /\ [][NextAnyOrder]_vars

(***************************************************************************)
(* Vocabulary of the words of a corpus, as the notebook counts them.       *)
(***************************************************************************)
RECURSIVE Flatten(_)
Flatten(lists) == IF lists = <<>> THEN <<>> ELSE Head(lists) \o Flatten(Tail(lists))

\* [word for sentence in sentences for word in sentence.split()]
WhitespaceTokens(texts) == Flatten([i \in DOMAIN texts |-> PySplit(texts[i])])

\* the words of the corpus in document order, as the tokenizer reads them
DocWords(texts) == Flatten([i \in DOMAIN texts |-> text_to_word_sequence(texts[i])])

FirstPos(w, words) == CHOOSE i \in DOMAIN words : words[i] = w /\ \A j \in 1..(i - 1) : words[j] # w
Occurrences(w, words) == Cardinality({i \in DOMAIN words : words[i] = w})

Words(wi) == {e[1] : e \in wi}
Ids(wi) == {e[2] : e \in wi}

(***************************************************************************)
(* C1 (as claimed): ids follow first-seen order: of two words of the       *)
(* vocabulary, the one that first appears earlier in the corpus has the    *)
(* smaller id, however often either occurs.                                *)
(***************************************************************************)
C1_FirstSeenOrder ==
    pc = "tokenized" =>
        \A e1, e2 \in word_index :
            FirstPos(e1[1], DocWords(x)) < FirstPos(e2[1], DocWords(x)) => e1[2] < e2[2]

(***************************************************************************)
(* C1 (amended): ids follow descending frequency: the word that occurs     *)
(* more often in the corpus has the smaller id, and of two words that      *)
(* occur equally often the one first seen earlier has the smaller id.      *)
(***************************************************************************)
C1_FrequencyOrder ==
    pc = "tokenized" =>
        \A e1, e2 \in word_index :
            LET n1 == Occurrences(e1[1], DocWords(x))
                n2 == Occurrences(e2[1], DocWords(x))
            IN  /\ n1 > n2 => e1[2] < e2[2]
                /\ (n1 = n2 /\ FirstPos(e1[1], DocWords(x)) < FirstPos(e2[1], DocWords(x)))
                       => e1[2] < e2[2]

\* a corpus in which a word seen later occurs more often than one seen earlier
C1_Witness ==
    /\ pc = "tokenized"
    /\ \E e1, e2 \in word_index :
           /\ FirstPos(e1[1], DocWords(x)) < FirstPos(e2[1], DocWords(x))
           /\ Occurrences(e1[1], DocWords(x)) < Occurrences(e2[1], DocWords(x))
           /\ e2[2] < e1[2]

C4_IdsAreOneToSize ==
    pc = "tokenized" =>
        /\ 0 \notin Ids(word_index)
        /\ Ids(word_index) = 1..Cardinality(Words(word_index))
        /\ \A e1, e2 \in word_index : (e1[2] = e2[2]) <=> (e1[1] = e2[1])
        /\ \A e \in word_index :
               {t \in index_to_words(word_index) : t[1] = e[2]} = {<<e[2], e[1]>>}
        /\ {t[1] : t \in index_to_words(word_index)} = Ids(word_index) \cup {0}

C4_Witness ==
    /\ pc = "tokenized"
    /\ Cardinality(word_index) >= 2

IsNormalised(t) ==
    /\ \A i \in DOMAIN t : t[i] \in {"a", "b", SP}
    /\ t # <<>> => (t[1] # SP /\ t[Len(t)] # SP)
    /\ \A i \in 1..(Len(t) - 1) : ~(t[i] = SP /\ t[i + 1] = SP)

Longest(seqs) == IF seqs = <<>> THEN 0 ELSE MaxOf({Len(seqs[i]) : i \in DOMAIN seqs})
Target(seqs, len) == IF len = {} THEN Longest(seqs) ELSE Given(len)

C5_PadToTarget ==
    (/\ pc = "padded"
     /\ length # {} \/ sequences # <<>>
     /\ Target(sequences, length) >= Longest(sequences))
        => /\ raised = "none"
           /\ Len(padded) = Len(sequences)
           /\ \A i \in DOMAIN sequences :
                  /\ Len(padded[i]) = Target(sequences, length)
                  /\ SubSeq(padded[i], 1, Len(sequences[i])) = sequences[i]
                  /\ \A j \in (Len(sequences[i]) + 1)..Len(padded[i]) : padded[i][j] = 0

\* a batch with a non-empty row that pad had to extend
C5_Witness ==
    /\ pc = "padded"
    /\ raised = "none"
    /\ \E i \in DOMAIN sequences :
           Len(sequences[i]) >= 1 /\ Len(padded[i]) > Len(sequences[i])

(***************************************************************************)
(* C6 (as claimed): when a length is given and a row is longer than it,    *)
(* pad ends with an error and returns no batch.                            *)
(***************************************************************************)
C6_TooLongRowRaises ==
    (/\ pc = "padded"
     /\ length # {}
     /\ \E i \in DOMAIN sequences : Len(sequences[i]) > Given(length))
        => raised # "none"

(***************************************************************************)
(* C7 (as claimed): encoding a sentence that holds a word the vocabulary   *)
(* lacks ends with UnknownTokenError.                                      *)
(***************************************************************************)
C7_UnknownTokenRaises ==
    (/\ pc = "encoded"
     /\ ~(Range(text_to_word_sequence(sentence)) \subseteq Words(word_index)))
        => raised = "UnknownTokenError"

(***************************************************************************)
(* C8: logits_to_text returns one token per position, in position order,   *)
(* separated by single spaces; the token of a position is the word whose   *)
(* id is the lowest index among the largest entries of its class vector,   *)
(* and the pad marker when that index is 0.  Trailing pad markers stay:    *)
(* predictions 1, 2, 0, 0 over {1: a, 2: b} give "a b <PAD> <PAD>".        *)
(***************************************************************************)
IsFirstLargest(v, k) ==
    /\ \A j \in DOMAIN v : v[j] <= v[k + 1]
    /\ \A j \in 1..k : v[j] < v[k + 1]

C8_OneTokenPerPosition ==
    pc = "decoded" =>
        /\ raised = "none"
        /\ logits = <<>> => translation = <<>>
        /\ logits # <<>> =>
              LET tokens == SplitOn(translation, SP)
              IN  /\ Len(tokens) = Len(logits)
                  /\ \A i \in DOMAIN logits :
                         \/ IsFirstLargest(logits[i], 0) /\ tokens[i] = PAD
                         \/ \E e \in word_index :
                               IsFirstLargest(logits[i], e[2]) /\ tokens[i] = e[1]
        /\ (/\ word_index = {<< <<"a">>, 1 >>, << <<"b">>, 2 >>}
            /\ Len(logits) = 4
            /\ IsFirstLargest(logits[1], 1) /\ IsFirstLargest(logits[2], 2)
            /\ IsFirstLargest(logits[3], 0) /\ IsFirstLargest(logits[4], 0))
              => translation = <<"a", SP, "b", SP, "<", "P", "A", "D", ">",
                                 SP, "<", "P", "A", "D", ">">>

\* the scenario of the claim, with a tie in the class vector of a position
C8_Witness ==
    /\ pc = "decoded"
    /\ word_index = {<< <<"a">>, 1 >>, << <<"b">>, 2 >>}
    /\ logits = << <<0, 1, 1>>, <<0, 0, 1>>, <<1, 0, 1>>, <<0, 0, 0>> >>
    /\ translation = <<"a", SP, "b", SP, "<", "P", "A", "D", ">",
                       SP, "<", "P", "A", "D", ">">>

(***************************************************************************)
(* C9 (as claimed): corpora of unequal sentence counts are rejected before *)
(* anything is padded: no run has padded matrices for misaligned corpora.  *)
(***************************************************************************)
C9_MisalignedRejectedBeforePadding ==
    pc = "preprocessed" => Len(english_sentences) = Len(french_sentences)

(***************************************************************************)
(* C10: for corpora of N sentences each, both matrices preprocess returns  *)
(* have N rows, and row i of each holds the ids of the words of sentence i *)
(* of its corpus, in order, followed by zeros only.                        *)
(***************************************************************************)
RECURSIVE NonZero(_)
NonZero(row) ==
    IF row = <<>> THEN <<>>
    ELSE (IF Head(row) = 0 THEN <<>> ELSE <<Head(row)>>) \o NonZero(Tail(row))

RowIsSentence(row, tk, sent) ==
    LET ids == NonZero(row)
        words == text_to_word_sequence(sent)
    IN  /\ Len(ids) = Len(words)
        /\ SubSeq(row, 1, Len(ids)) = ids
        /\ \A j \in DOMAIN ids : <<words[j], ids[j]>> \in tk

C10_RowsAlignWithSentences ==
    (pc = "preprocessed" /\ Len(english_sentences) = Len(french_sentences))
        => /\ Len(preproc_english_sentences) = Len(english_sentences)
           /\ Len(preproc_french_sentences) = Len(french_sentences)
           /\ \A i \in DOMAIN english_sentences :
                  RowIsSentence(preproc_english_sentences[i], english_tokenizer,
                                english_sentences[i])
           /\ \A i \in DOMAIN french_sentences :
                  RowIsSentence(Flatten(preproc_french_sentences[i]), french_tokenizer,
                                french_sentences[i])

\* two aligned corpora of two sentences each that differ from one another
C10_Witness ==
    /\ pc = "preprocessed"
    /\ Len(english_sentences) = 2 /\ Len(french_sentences) = 2
    /\ english_tokenizer # french_tokenizer
    /\ preproc_english_sentences[1] # preproc_english_sentences[2]

(***************************************************************************)
(* C11 (as claimed): when a write of the persistence cell fails after an   *)
(* earlier artifact was written, the partial set of artifacts is flagged   *)
(* as inconsistent: the cell never leaves a non-empty proper subset of the *)
(* four artifacts on disk without a file that marks it.                    *)
(***************************************************************************)
C11_PartialSetFlagged ==
    (artifacts # {} /\ artifacts \cap Range(Writes) # Range(Writes))
        => \E marker \in artifacts : marker \notin Range(Writes)

(***************************************************************************)
(* C13: preprocess builds each vocabulary from its own corpus and pads     *)
(* each language to its own longest encoding: row i of a matrix is the     *)
(* ids of the words of sentence i under that language's vocabulary, all of *)
(* them, followed by zeros only; the width is the largest word count of a  *)
(* sentence of that corpus; each entry of the target matrix is one id.     *)
(***************************************************************************)
WordCounts(sents) == {Len(text_to_word_sequence(sents[i])) : i \in DOMAIN sents}

RowIsPaddedEncoding(row, tk, sent, width) ==
    LET words == text_to_word_sequence(sent)
    IN  /\ Len(row) = width
        /\ Len(words) <= width
        /\ \A j \in 1..Len(words) : row[j] # 0 /\ <<words[j], row[j]>> \in tk
        /\ \A j \in (Len(words) + 1)..width : row[j] = 0

C13_OwnVocabularyOwnWidth ==
    pc \notin {"load_cell", "preprocess_cell"} =>
        /\ Words(english_tokenizer) = Range(DocWords(english_sentences))
        /\ Words(french_tokenizer) = Range(DocWords(french_sentences))
        /\ max_english_sequence_length = MaxOf(WordCounts(english_sentences))
        /\ max_french_sequence_length = MaxOf(WordCounts(french_sentences))
        /\ Len(preproc_english_sentences) = Len(english_sentences)
        /\ Len(preproc_french_sentences) = Len(french_sentences)
        /\ \A i \in DOMAIN english_sentences :
               RowIsPaddedEncoding(preproc_english_sentences[i], english_tokenizer,
                                   english_sentences[i], max_english_sequence_length)
        /\ \A i \in DOMAIN french_sentences :
               /\ \A j \in DOMAIN preproc_french_sentences[i] :
                      Len(preproc_french_sentences[i][j]) = 1
               /\ RowIsPaddedEncoding(Flatten(preproc_french_sentences[i]), french_tokenizer,
                                      french_sentences[i], max_french_sequence_length)

\* corpora of different widths, with a source row that needed padding
C13_Witness ==
    /\ pc = "preprocessed"
    /\ max_english_sequence_length >= 1
    /\ max_french_sequence_length > max_english_sequence_length
    /\ \E i \in DOMAIN preproc_english_sentences :
           preproc_english_sentences[i][max_english_sequence_length] = 0

(***************************************************************************)
(* C14 (as claimed): the model input tmp_x drops no source token: every    *)
(* row of tmp_x has the width of the target matrix and begins with all the *)
(* non-pad ids of the same row of the source matrix, in their order, also  *)
(* when the longest source sentence is longer than the longest target one. *)
(***************************************************************************)
InputRowKeepsSource(ids, i) ==
    /\ Len(ids) = max_french_sequence_length
    /\ LET kept == NonZero(preproc_english_sentences[i])
       IN  Len(kept) <= Len(ids) /\ SubSeq(ids, 1, Len(kept)) = kept

C14_InputKeepsSourceTokens ==
    /\ pc \in {"simple_done", "bd_done"} =>
          \A i \in DOMAIN tmp_x : InputRowKeepsSource(Flatten(tmp_x[i]), i)
    /\ pc \in {"embed_done", "saved"} =>
          \A i \in DOMAIN tmp_x : InputRowKeepsSource(tmp_x[i], i)

(***************************************************************************)
(* C15: in a run from the top, every class index a built model can         *)
(* predict, 0 up to the class count of its output layer less one, has an   *)
(* entry in the id-to-word table logits_to_text builds from the target     *)
(* tokenizer, so decoding a prediction raises no KeyError.                 *)
(***************************************************************************)
BuiltModels == simple_rnn_model \cup bd_rnn_model \cup embed_rnn_model

C15_EveryClassDecodes ==
    \A m \in BuiltModels :
        \A k \in 0..(m.classes - 1) :
            /\ \E e \in index_to_words(french_tokenizer) : e[1] = k
            /\ decode_raises(<<k>>, french_tokenizer) = "none"

\* all three models built over a target vocabulary of two words
C15_Witness ==
    /\ pc = "embed_done"
    /\ simple_rnn_model # {} /\ bd_rnn_model # {} /\ embed_rnn_model # {}
    /\ Cardinality(french_tokenizer) = 2
    /\ \A m \in BuiltModels : m.classes = 3

(***************************************************************************)
(* C16 (as claimed): whatever the order and repetition of the              *)
(* preprocessing cell and the model cells, every model is built with more  *)
(* output classes than the largest label of the target matrix, and the     *)
(* embedding model with an input vocabulary size larger than every id of   *)
(* its input.                                                              *)
(***************************************************************************)
C16_ClassesExceedLabels ==
    /\ \A m \in BuiltModels : m.classes > MaxLabel(preproc_french_sentences)
    /\ \A m \in embed_rnn_model :
          \A i \in DOMAIN PadInput : \A j \in DOMAIN PadInput[i] :
              m.input_dim > PadInput[i][j]

====
